---- MODULE Spec2Model ----
(***************************************************************************)
(* Backup / upload / cleanup pipeline of the infra repository.             *)
(*                                                                         *)
(*   main.py      main()          the orchestrator                         *)
(*   mysql.py     backup()        relational driver (mysqldump)            *)
(*   postgres.py  backup()        relational driver (pg_dump)              *)
(*   mongo.py     backup()        document-store driver (PyMongo)          *)
(*   upload.py    upload_files()  the upload step                          *)
(*                                                                         *)
(* Spec       is a run of main(): one action per step of its linear flow.  *)
(* SpecDriver applies one driver's backup() to every bounded input.        *)
(*                                                                         *)
(* The dump tools, the storage client and the filesystem are outside the   *)
(* program: their outcomes are inputs drawn by the actions.                *)
(***************************************************************************)
EXTENDS Naturals, Integers, Sequences, FiniteSets, TLC

\* ------------------------------------------------------------------ bounds
MaxDbs == 2                 \* target databases of one backup() call
MaxExternalRemovals == 1    \* files removed from the output directory by others
MaxTicks == 1               \* UTC day changes between the dump and the log
MaxRehosts == 1             \* changes of what the host lookups answer
MaxSettingLen == 3          \* characters of a database-list setting
MaxSingleLen == 2           \* characters of a single-database setting

\* ------------------------------------------------------------- vocabulary
\* The engines in the order main() runs them (main.py:26-54).
Engines == <<"mysql", "postgres", "mongo">>

EngineSet == {Engines[i] : i \in 1..Len(Engines)}

DbNames == {"orders", "users"}

\* An artifact path: OUTPUT_DIR / "{engine}_{host}_{db}_{timestamp}.{ext}".
\* Host and timestamp are fixed within one backup() call, so within a run a
\* path is identified by the engine and the database name.
Path(e, db) == [engine |-> e, db |-> db]

Paths == {Path(e, db) : e \in EngineSet, db \in DbNames}

\* Python's None, and a list value, as the value of a variable that can hold
\* either.
None == [isNone |-> TRUE, items |-> <<>>]

List(s) == [isNone |-> FALSE, items |-> s]

Range(s) == {s[i] : i \in 1..Len(s)}

\* Sequences over S of length at most n.
SeqUpTo(S, n) == UNION {[1..k -> S] : k \in 0..n}

\* Exit status of the interpreter when main() ends by an uncaught exception
\* (sys.exit(main()) is never reached; CPython exits with status 1).
UncaughtExit == 1

\* ---------------------------------------------------------------- drivers
\* Outcome of one database's dump in a relational driver:
\*   ok         dump exit 0, gzip written, chmod done
\*   dumpfail   dump tool exits non-zero (or is not found): RuntimeError
\*   gzipfail   gzip.open/write raises after creating the output file
\*   chmodfail  os.chmod raises on the finished output file
RelOutcomes == {"ok", "dumpfail", "gzipfail", "chmodfail"}

\* Outcome of one database's dump in the document-store driver:
\*   ok                dumped and archived
\*   tmpfail           tempfile.TemporaryDirectory raises (outside the try)
\*   dumpfail          listing or reading a collection raises
\*   archfail_nofile   tarfile.open raises before creating the archive
\*   archfail_partial  tar.add raises after the archive was created
\*   chmodfail         os.chmod raises in the final loop
MongoOutcomes == {"ok", "tmpfail", "dumpfail", "archfail_nofile",
                  "archfail_partial", "chmodfail"}

Outcomes(e) == IF e = "mongo" THEN MongoOutcomes ELSE RelOutcomes

\* Result of a backup() call that is still running (no database reached yet).
NoResult == [created |-> <<>>, written |-> {}, raised |-> FALSE]

\* Variant of mysql_run_and_gzip: the output file is opened before the exit
\* status of the dump is looked at.
mysql_run_and_gzip_open_first(out) ==
    [raised |-> out # "ok",
     wrote  |-> TRUE]

\* mysql._run_and_gzip: what one call does to the output file and whether it
\* raises.
mysql_run_and_gzip(out) ==
    [raised |-> out # "ok",
     wrote  |-> out \in {"ok", "gzipfail", "chmodfail"}]

RECURSIVE mysql_loop(_, _, _, _)
mysql_loop(dbs, outs, i, acc) ==
    IF i > Len(dbs) THEN acc
    ELSE LET p == Path("mysql", dbs[i])
             r == mysql_run_and_gzip(outs[i])
             w == IF r.wrote THEN acc.written \cup {p} ELSE acc.written
         IN IF r.raised
            THEN [created |-> acc.created, written |-> w, raised |-> TRUE]
            ELSE mysql_loop(dbs, outs, i + 1,
                            [created |-> Append(acc.created, p),
                             written |-> w, raised |-> FALSE])

\* mysql.backup(): pre is FALSE when a precondition fails (mysqldump not
\* found, nothing to enumerate); dbs is the target list.
mysql_backup(pre, dbs, outs) ==
    IF ~pre \/ dbs = <<>> THEN NoResult
    ELSE mysql_loop(dbs, outs, 1, NoResult)

postgres_run_and_gzip(out) ==
    [raised |-> out # "ok",
     wrote  |-> out \in {"ok", "gzipfail", "chmodfail"}]

RECURSIVE postgres_loop(_, _, _, _)
postgres_loop(dbs, outs, i, acc) ==
    IF i > Len(dbs) THEN acc
    ELSE LET p == Path("postgres", dbs[i])
             r == postgres_run_and_gzip(outs[i])
             w == IF r.wrote THEN acc.written \cup {p} ELSE acc.written
         IN IF r.raised
            THEN [created |-> acc.created, written |-> w, raised |-> TRUE]
            ELSE postgres_loop(dbs, outs, i + 1,
                               [created |-> Append(acc.created, p),
                                written |-> w, raised |-> FALSE])

postgres_backup(pre, dbs, outs) ==
    IF ~pre \/ dbs = <<>> THEN NoResult
    ELSE postgres_loop(dbs, outs, 1, NoResult)

RECURSIVE mongo_loop(_, _, _, _)
mongo_loop(dbs, outs, i, acc) ==
    IF i > Len(dbs) THEN acc
    ELSE LET p == Path("mongo", dbs[i])
             o == outs[i]
         IN IF o = "tmpfail"
            THEN [acc EXCEPT !.raised = TRUE]
            ELSE IF o \in {"dumpfail", "archfail_nofile"}
            THEN mongo_loop(dbs, outs, i + 1, acc)
            ELSE IF o = "archfail_partial"
            THEN mongo_loop(dbs, outs, i + 1,
                            [acc EXCEPT !.written = @ \cup {p}])
            ELSE mongo_loop(dbs, outs, i + 1,
                            [acc EXCEPT !.created = Append(@, p),
                                        !.written = @ \cup {p}])

\* mongo.backup(): pre is FALSE when a precondition fails (no MONGO_URI,
\* nothing to enumerate, the client cannot be built).
mongo_backup(pre, dbs, outs) ==
    IF ~pre \/ dbs = <<>> THEN NoResult
    ELSE mongo_loop(dbs, outs, 1, NoResult)

backup(e, pre, dbs, outs) ==
    CASE e = "mysql"    -> mysql_backup(pre, dbs, outs)
      [] e = "postgres" -> postgres_backup(pre, dbs, outs)
      [] e = "mongo"    -> mongo_backup(pre, dbs, outs)

\* detect() of an engine: "true", "false", or "raise".  mongo.detect() catches
\* every exception; the relational ones call shutil.which unguarded.
DetectOutcomes(e) ==
    IF e = "mongo" THEN {"true", "false"} ELSE {"true", "false", "raise"}

\* The inputs of one backup() call.
Calls(e) ==
    {[pre |-> pre, dbs |-> dbs, outs |-> outs] :
        pre \in BOOLEAN,
        dbs \in {<<>>}, outs \in {<<>>}}
    \cup
    UNION {{[pre |-> TRUE, dbs |-> dbs, outs |-> outs] :
                outs \in [1..Len(dbs) -> Outcomes(e)]} :
           dbs \in SeqUpTo(DbNames, MaxDbs) \ {<<>>}}


\* ---------------------------------------------------------------- strings
\* A string is the sequence of its characters.  A part of a name the program
\* only copies (a database name, a timestamp, an address) may be one element.
Upper == <<"A", "B", "C", "D", "E", "F", "G", "H", "I", "J", "K", "L", "M",
           "N", "O", "P", "Q", "R", "S", "T", "U", "V", "W", "X", "Y", "Z">>

LowerOf == <<"a", "b", "c", "d", "e", "f", "g", "h", "i", "j", "k", "l", "m",
             "n", "o", "p", "q", "r", "s", "t", "u", "v", "w", "x", "y", "z">>

LowerChar(c) ==
    IF \E i \in 1..Len(Upper) : Upper[i] = c
    THEN LowerOf[CHOOSE i \in 1..Len(Upper) : Upper[i] = c]
    ELSE c

\* str.lower()
lower(str) == [i \in 1..Len(str) |-> LowerChar(str[i])]

\* str.startswith(p)
startswith(str, p) ==
    /\ Len(str) >= Len(p)
    /\ SubSeq(str, 1, Len(p)) = p

RECURSIVE lstrip(_, _)
lstrip(str, cs) ==
    IF str # <<>> /\ str[1] \in cs THEN lstrip(Tail(str), cs) ELSE str

RECURSIVE rstrip(_, _)
rstrip(str, cs) ==
    IF str # <<>> /\ str[Len(str)] \in cs
    THEN rstrip(SubSeq(str, 1, Len(str) - 1), cs)
    ELSE str

\* str.strip(chars): the characters of cs removed at both ends.
strip(str, cs) == rstrip(lstrip(str, cs), cs)

S_mysql == <<"m", "y", "s", "q", "l">>

S_postgres == <<"p", "o", "s", "t", "g", "r", "e", "s">>

S_mongo == <<"m", "o", "n", "g", "o">>

S_unknown == <<"u", "n", "k", "n", "o", "w", "n">>

S_unknown_host == <<"unknown-host">>

\* ------------------------------------------------- names, hosts and keys
\* Outcome of socket.gethostname() and of the outbound-address lookup: the
\* call raises (ok = FALSE) or returns the string val, which may be empty.
Failed == [ok |-> FALSE, val |-> <<>>]

Got(v) == [ok |-> TRUE, val |-> v]

\* _hostname() of a driver (mysql.py:33-37, the same in postgres.py:29-33 and
\* mongo.py:38-42): the host name, whatever it is, unless the call raises.
driver_hostname(h) == IF h.ok THEN h.val ELSE S_unknown_host

\* The names the drivers give their artifacts.
mysql_filename(host, db, ts) ==
    S_mysql \o <<"_">> \o host \o <<"_">> \o db \o <<"_">> \o ts \o <<".sql.gz">>

postgres_filename(host, db, ts) ==
    S_postgres \o <<"_">> \o host \o <<"_">> \o db \o <<"_">> \o ts
        \o <<".sql.gz">>

\* Variant of mongo_filename: the artifact is named after the product.
mongo_filename_mongodb(host, db, ts) ==
    S_mongo \o <<"d", "b", "_">> \o host \o <<"_">> \o db \o <<"_">> \o ts
        \o <<".archive.gz">>

mongo_filename(host, db, ts) ==
    S_mongo \o <<"_">> \o host \o <<"_">> \o db \o <<"_">> \o ts
        \o <<".archive.gz">>

artifact_filename(e, host, db, ts) ==
    CASE e = "mysql"    -> mysql_filename(host, db, ts)
      [] e = "postgres" -> postgres_filename(host, db, ts)
      [] e = "mongo"    -> mongo_filename(host, db, ts)

\* upload_files._server_id (upload.py:57-76): the outbound address if the
\* lookup gives a non-empty one, else the non-empty host name, else the
\* constant.
upload_server_id(ip, h) ==
    IF ip.ok /\ ip.val # <<>> THEN ip.val
    ELSE IF h.ok /\ h.val # <<>> THEN h.val
    ELSE S_unknown_host

\* main._server_id (main.py:84-102)
main_server_id(ip, h) ==
    IF ip.ok /\ ip.val # <<>> THEN ip.val
    ELSE IF h.ok /\ h.val # <<>> THEN h.val
    ELSE S_unknown_host

\* upload.py:86-95
upload_db_type(name) ==
    LET name_lower == lower(name) IN
    IF startswith(name_lower, S_mysql \o <<"_">>) THEN S_mysql
    ELSE IF startswith(name_lower, S_postgres \o <<"_">>) THEN S_postgres
    ELSE IF startswith(name_lower, S_mongo \o <<"_">>) THEN S_mongo
    ELSE S_unknown

\* upload.py:97-98
upload_key(prefix, server, date_folder, name) ==
    LET base_prefix == IF prefix # <<>>
                       THEN strip(prefix, {"/"}) \o <<"/">>
                       ELSE <<>>
    IN base_prefix \o server \o <<"/">> \o upload_db_type(name) \o <<"/">>
           \o date_folder \o <<"/">> \o name

\* Variant of main_db_type: the name is compared as it is, not in lower case.
main_db_type_case(name) ==
    IF startswith(name, S_mysql \o <<"_">>) THEN S_mysql
    ELSE IF startswith(name, S_postgres \o <<"_">>) THEN S_postgres
    ELSE IF startswith(name, S_mongo \o <<"_">>) THEN S_mongo
    ELSE S_unknown

\* main.py:111-120
main_db_type(name) ==
    LET name_lower == lower(name) IN
    IF startswith(name_lower, S_mysql \o <<"_">>) THEN S_mysql
    ELSE IF startswith(name_lower, S_postgres \o <<"_">>) THEN S_postgres
    ELSE IF startswith(name_lower, S_mongo \o <<"_">>) THEN S_mongo
    ELSE S_unknown

\* main.py:121-122
main_key(prefix, server, date_folder, name) ==
    LET key_prefix == IF prefix # <<>>
                      THEN strip(prefix, {"/"}) \o <<"/">>
                      ELSE <<>>
    IN key_prefix \o server \o <<"/">> \o main_db_type(name) \o <<"/">>
           \o date_folder \o <<"/">> \o name


\* ------------------------------------------------------------------ state
VARIABLES
    pc,               \* main()'s position
    bucket,           \* S3_BUCKET: "unset", "empty" or "set"
    eng,              \* index in Engines of the engine main() runs next
    engStatus,        \* per engine: "notrun", "skipped", "returned", "raised"
    ret,              \* per engine: the list its backup() returned
    created_files,    \* main(): the accumulated artifact list
    disk,             \* artifact files present in the output directory
    driverWrote,      \* artifact files the drivers created during this run
    extRemoved,       \* artifact files removed by someone else
    uploadStatus,     \* upload_files: "notcalled", "running", "returned", "raised"
    ui,               \* upload_files: index of the next item of its loop
    attempted,        \* indices of created_files for which put was invoked
    putOk,            \* indices of created_files put successfully, in order
    failedAt,         \* index whose put failed, 0 if none
    diskAtUpload,     \* disk when upload_files was called
    uploaded_files,   \* main(): what upload_files returned
    logWritten,       \* the Run Log file was written
    logEntries,       \* the artifact paths the Run Log lists
    unlinked,         \* artifact files main() unlinked
    deleted,          \* main(): count of deleted files
    failed_deletions, \* main(): paths whose unlink raised
    exit,             \* exit status of the process, -1 while running
    drv,              \* SpecDriver: one backup() call and its result
    kc,               \* SpecKey: one artifact's name and its storage keys
    sel               \* SpecSelect: one driver's database selection

vars == <<pc, bucket, eng, engStatus, ret, created_files, disk, driverWrote,
          extRemoved, uploadStatus, ui, attempted, putOk, failedAt,
          diskAtUpload, uploaded_files, logWritten, logEntries, unlinked,
          deleted, failed_deletions, exit, drv, kc, sel>>

engineVars == <<eng, engStatus, ret, created_files, driverWrote>>

uploadVars == <<uploadStatus, ui, attempted, putOk, failedAt, diskAtUpload,
                uploaded_files>>

cleanupVars == <<logWritten, logEntries, unlinked, deleted, failed_deletions>>

NoDrv == [engine |-> "mysql", pre |-> FALSE, dbs |-> <<>>, outs |-> <<>>,
          state |-> "idle", result |-> NoResult]

NoKc == [state |-> "idle"]

NoSel == [state |-> "idle"]

mainVars == <<pc, bucket, engineVars, disk, extRemoved, uploadVars,
              cleanupVars, exit>>

MainInit ==
    /\ pc = "validate"
    /\ eng = 1
    /\ engStatus = [e \in EngineSet |-> "notrun"]
    /\ ret = [e \in EngineSet |-> <<>>]
    /\ created_files = <<>>
    /\ disk = {}
    /\ driverWrote = {}
    /\ extRemoved = {}
    /\ uploadStatus = "notcalled"
    /\ ui = 1
    /\ attempted = {}
    /\ putOk = <<>>
    /\ failedAt = 0
    /\ diskAtUpload = {}
    /\ uploaded_files = None
    /\ logWritten = FALSE
    /\ logEntries = <<>>
    /\ unlinked = {}
    /\ deleted = 0
    /\ failed_deletions = {}
    /\ exit = -1

Init ==
    /\ MainInit
    /\ bucket \in {"unset", "empty", "set"}
    /\ drv = NoDrv
    /\ kc = NoKc
    /\ sel = NoSel

\* ------------------------------------------------------------------ main()
\* Variant of BucketMissing: `if bucket is None`, an empty S3_BUCKET passes.
BucketMissing_none_only(b) == b = "unset"

\* `if not bucket`: an unset and an empty S3_BUCKET are both missing.
BucketMissing(b) == b \in {"unset", "empty"}

\* main.py:18-22
ValidateBucket ==
    /\ pc = "validate"
    /\ IF BucketMissing(bucket)
       THEN pc' = "done" /\ exit' = 2
       ELSE pc' = "engines" /\ exit' = exit
    /\ UNCHANGED <<bucket, engineVars, disk, extRemoved, uploadVars,
                   cleanupVars, drv, kc, sel>>

\* What main()'s try/except around one engine leaves behind (main.py:27-34):
\* the status of the engine and the list added to created_files.
EngineStep(det, r) ==
    IF det = "raise" THEN [status |-> "raised", add |-> <<>>, wrote |-> {}]
    ELSE IF det = "false" THEN [status |-> "skipped", add |-> <<>>, wrote |-> {}]
    ELSE IF r.raised THEN [status |-> "raised", add |-> <<>>, wrote |-> r.written]
    ELSE [status |-> "returned", add |-> r.created, wrote |-> r.written]

\* Variant of AfterEngine: an engine that raised ends the driver phase.
AfterEngine_abort(i, status) ==
    IF status = "raised" THEN Len(Engines) + 1 ELSE i + 1

\* Where main() goes after engine number i, whatever its status: the except
\* clause falls through to the next engine's try block.
AfterEngine(i, status) == i + 1

\* main.py:26-54, one engine
RunEngine ==
    /\ pc = "engines"
    /\ eng <= Len(Engines)
    /\ LET e == Engines[eng] IN
       \E det \in DetectOutcomes(e), c \in Calls(e) :
          LET s == EngineStep(det, backup(e, c.pre, c.dbs, c.outs)) IN
          /\ engStatus' = [engStatus EXCEPT ![e] = s.status]
          /\ ret' = [ret EXCEPT ![e] = s.add]
          /\ created_files' = created_files \o s.add
          /\ disk' = disk \cup s.wrote
          /\ driverWrote' = driverWrote \cup s.wrote
          /\ eng' = AfterEngine(eng, s.status)
    /\ UNCHANGED <<pc, bucket, extRemoved, uploadVars, cleanupVars, exit, drv, kc, sel>>

\* Variant of NothingCreated: the emptiness test is missing.
NothingCreated_never(created) == FALSE

\* `if not created_files` (main.py:56)
NothingCreated(created) == created = <<>>

\* main.py:56-58
CheckCreated ==
    /\ pc = "engines"
    /\ eng > Len(Engines)
    /\ IF NothingCreated(created_files)
       THEN pc' = "done" /\ exit' = 1
       ELSE pc' = "upload" /\ exit' = exit
    /\ UNCHANGED <<bucket, engineVars, disk, extRemoved, uploadVars,
                   cleanupVars, drv, kc, sel>>

\* Variant of MainCatchUpload: the failure is reported and main() goes on to
\* the log and the deletion.
MainCatchUpload_fallthrough ==
    /\ pc' = "log"
    /\ exit' = exit
    /\ UNCHANGED cleanupVars

\* main.py:63-66: upload_files raised
MainCatchUpload ==
    /\ pc' = "done"
    /\ exit' = 3
    /\ UNCHANGED cleanupVars

\* upload.py:19-78: upload_files is called; importing boto3 or building the
\* client may raise.
UploadSetup ==
    /\ pc = "upload"
    /\ uploadStatus = "notcalled"
    /\ diskAtUpload' = disk
    /\ \E ok \in BOOLEAN :
          IF ok
          THEN /\ uploadStatus' = "running"
               /\ UNCHANGED <<pc, exit, cleanupVars>>
          ELSE /\ uploadStatus' = "raised"
               /\ MainCatchUpload
    /\ UNCHANGED <<bucket, engineVars, disk, extRemoved, ui, attempted, putOk,
                   failedAt, uploaded_files, drv, kc, sel>>

\* Variant of AfterPut: a failed put is reported and the loop goes on.
AfterPut_swallow(i, ok) == i + 1

\* What upload_files does after a put of item i: go on with the next item,
\* or raise (0) when the put failed (upload.py:99-103).
AfterPut(i, ok) == IF ok THEN i + 1 ELSE 0

\* upload.py:80-103, one item of the loop
UploadItem ==
    /\ pc = "upload"
    /\ uploadStatus = "running"
    /\ ui <= Len(created_files)
    /\ IF created_files[ui] \notin disk
       THEN /\ ui' = ui + 1
            /\ UNCHANGED <<attempted, putOk, failedAt, uploadStatus, pc, exit,
                           cleanupVars>>
       ELSE \E ok \in BOOLEAN :
            /\ attempted' = attempted \cup {ui}
            /\ putOk' = IF ok THEN Append(putOk, ui) ELSE putOk
            /\ failedAt' = IF ok THEN failedAt ELSE ui
            /\ IF AfterPut(ui, ok) # 0
               THEN /\ ui' = AfterPut(ui, ok)
                    /\ UNCHANGED <<uploadStatus, pc, exit, cleanupVars>>
               ELSE /\ ui' = ui
                    /\ uploadStatus' = "raised"
                    /\ MainCatchUpload
    /\ UNCHANGED <<bucket, engineVars, disk, extRemoved, diskAtUpload,
                   uploaded_files, drv, kc, sel>>

\* The value upload_files returns when its loop ends: the function is declared
\* `-> None`, keeps no list of the files it put and has no return statement.
upload_files_result(files, put) == None

\* upload.py:80 (loop exhausted) and main.py:62
UploadReturn ==
    /\ pc = "upload"
    /\ uploadStatus = "running"
    /\ ui > Len(created_files)
    /\ uploadStatus' = "returned"
    /\ uploaded_files' = upload_files_result(created_files, putOk)
    /\ pc' = "log"
    /\ UNCHANGED <<bucket, engineVars, disk, extRemoved, ui, attempted, putOk,
                   failedAt, diskAtUpload, cleanupVars, exit, drv, kc, sel>>

\* The artifacts the Run Log enumerates (main.py:106).
LogList(created, uploaded) == created

\* main.py:68-127: a failure to write the log is caught and reported.
WriteLog ==
    /\ pc = "log"
    /\ \E ok \in BOOLEAN :
          /\ logWritten' = ok
          /\ logEntries' = IF ok THEN LogList(created_files, uploaded_files)
                           ELSE logEntries
    /\ pc' = "delete"
    /\ UNCHANGED <<bucket, engineVars, disk, extRemoved, uploadVars, unlinked,
                   deleted, failed_deletions, exit, drv, kc, sel>>

\* Variant of DeleteList: main() deletes every created file.
DeleteList_created(created, uploaded) == List(created)

\* The value main() iterates to delete local files (main.py:134).
DeleteList(created, uploaded) == uploaded

\* main.py:134-144: the deletion loop over the list l from item i on; errs are
\* the items whose unlink raises.
RECURSIVE DeleteLoop(_, _, _, _)
DeleteLoop(l, i, errs, acc) ==
    IF i > Len(l) THEN acc
    ELSE LET p == l[i] IN
         IF p \notin acc.disk
         THEN DeleteLoop(l, i + 1, errs, acc)
         ELSE IF i \in errs
         THEN DeleteLoop(l, i + 1, errs,
                         [acc EXCEPT !.failed = @ \cup {p}])
         ELSE DeleteLoop(l, i + 1, errs,
                         [acc EXCEPT !.disk = @ \ {p},
                                     !.unlinked = @ \cup {p},
                                     !.deleted = @ + 1])

\* main.py:130-150.  Iterating None raises TypeError outside every try block:
\* main() ends by an uncaught exception.
DeleteUploaded ==
    /\ pc = "delete"
    /\ LET l == DeleteList(created_files, uploaded_files) IN
       IF l.isNone
       THEN /\ exit' = UncaughtExit
            /\ UNCHANGED <<disk, unlinked, deleted, failed_deletions>>
       ELSE \E errs \in SUBSET (1..Len(l.items)) :
            LET r == DeleteLoop(l.items, 1, errs,
                                [disk |-> disk, unlinked |-> unlinked,
                                 deleted |-> deleted,
                                 failed |-> failed_deletions]) IN
            /\ disk' = r.disk
            /\ unlinked' = r.unlinked
            /\ deleted' = r.deleted
            /\ failed_deletions' = r.failed
            /\ exit' = 0
    /\ pc' = "done"
    /\ UNCHANGED <<bucket, engineVars, extRemoved, uploadVars, logWritten,
                   logEntries, drv, kc, sel>>

\* Someone else removes an artifact file from the output directory while
\* main() handles the files (the case upload.py:82, main.py:108 and
\* main.py:136 test for).  The drivers never read the directory, so a removal
\* during the driver phase is a removal before the upload step.
ExternalRemove ==
    /\ pc \in {"upload", "log", "delete"}
    /\ Cardinality(extRemoved) < MaxExternalRemovals
    /\ \E p \in disk :
          /\ disk' = disk \ {p}
          /\ extRemoved' = extRemoved \cup {p}
    /\ UNCHANGED <<pc, bucket, engineVars, uploadVars, cleanupVars, exit, drv, kc, sel>>

Next ==
    \/ ValidateBucket
    \/ RunEngine
    \/ CheckCreated
    \/ UploadSetup
    \/ UploadItem
    \/ UploadReturn
    \/ WriteLog
    \/ DeleteUploaded
    \/ ExternalRemove

Spec == Init /\ [][Next]_vars


\* --------------------------------------------------- one driver, one call
\* SpecDriver: a backup() call of one engine on every bounded target list and
\* every outcome of its dumps.
DriverInit ==
    /\ MainInit
    /\ bucket = "set"
    /\ \E e \in EngineSet : \E c \in Calls(e) :
          drv = [engine |-> e, pre |-> c.pre, dbs |-> c.dbs, outs |-> c.outs,
                 state |-> "ready", result |-> NoResult]
    /\ kc = NoKc
    /\ sel = NoSel

DriverBackup ==
    /\ drv.state = "ready"
    /\ LET r == backup(drv.engine, drv.pre, drv.dbs, drv.outs) IN
       drv' = [drv EXCEPT !.result = r,
                          !.state = IF r.raised THEN "raised" ELSE "returned"]
    /\ UNCHANGED <<pc, bucket, engineVars, disk, extRemoved, uploadVars,
                   cleanupVars, exit, kc, sel>>

DriverNext == DriverBackup

SpecDriver == DriverInit /\ [][DriverNext]_vars

\* ------------------------------------------- one artifact, its two keys
\* SpecKey: the name a driver gives an artifact (or any other file name), the
\* key upload_files puts it under and the key main() writes in the Run Log,
\* while the UTC date and the answers of the host lookups may change.
KeyHosts == {<<"d", "b", "1">>, <<"M", "y", "_", "H">>}

HostOutcomes == {Failed, Got(<<>>)} \cup {Got(h) : h \in KeyHosts}

IpOutcomes == {Failed, Got(<<>>), Got(<<"10.0.0.5">>)}

KeyPrefixes == {<<>>, <<"p">>, <<"/", "p", "/">>, <<"p", "/", "q">>,
                <<"/">>, <<"/", "/">>}

KeyDbs == {<<"orders">>, <<"my_db">>}

\* File names no driver produces.
OtherNames == {<<"M", "Y", "S", "Q", "L", "_", "x">>,
               <<"m", "y", "s", "q", "l", "x">>,
               <<"P", "o", "s", "t", "g", "r", "e", "s", "_", "x">>,
               <<"m", "o", "n", "g", "o", "d", "b", "_", "x">>,
               <<"b", "a", "c", "k", "u", "p">>}

\* _timestamp() of the dump: strftime("%Y%m%dT%H%M%SZ").
DumpTimestamp == <<"20261105T235959Z">>

DateNames == <<"2026-11-05", "2026-11-06", "2026-11-07", "2026-11-08">>

\* datetime.utcnow().strftime("%Y-%m-%d") on the day-th day after the dump.
date_folder_on(day) == <<DateNames[day + 1]>>

KeyStart(e, name, fileHost, prefix, ip, h) ==
    [state |-> "ready", engine |-> e, name |-> name, fileHost |-> fileHost,
     prefix |-> prefix, ip |-> ip, hostn |-> h, day |-> 0, ticks |-> 0,
     rehosts |-> 0,
     upServer |-> <<>>, upDate |-> <<>>, upType |-> <<>>, upKey |-> <<>>,
     logServer |-> <<>>, logDate |-> <<>>, logType |-> <<>>, logKey |-> <<>>]

KeyInit ==
    /\ MainInit
    /\ bucket = "set"
    /\ drv = NoDrv
    /\ sel = NoSel
    /\ \E prefix \in KeyPrefixes, ip \in IpOutcomes, h \in HostOutcomes :
          \/ \E e \in EngineSet, db \in KeyDbs :
                LET host == driver_hostname(h) IN
                kc = KeyStart(e, artifact_filename(e, host, db, DumpTimestamp),
                              host, prefix, ip, h)
          \/ \E name \in OtherNames :
                kc = KeyStart("other", name, <<>>, prefix, ip, h)

\* upload.py:54-98 for one file
KeyUpload ==
    /\ kc.state = "ready"
    /\ LET server == upload_server_id(kc.ip, kc.hostn)
           date_folder == date_folder_on(kc.day)
       IN kc' = [kc EXCEPT !.state = "uploaded",
                           !.upServer = server,
                           !.upDate = date_folder,
                           !.upType = upload_db_type(kc.name),
                           !.upKey = upload_key(kc.prefix, server, date_folder,
                                                kc.name)]
    /\ UNCHANGED <<mainVars, drv, sel>>

\* main.py:81-122 for one file
KeyLog ==
    /\ kc.state = "uploaded"
    /\ LET server == main_server_id(kc.ip, kc.hostn)
           date_folder == date_folder_on(kc.day)
       IN kc' = [kc EXCEPT !.state = "logged",
                           !.logServer = server,
                           !.logDate = date_folder,
                           !.logType = main_db_type(kc.name),
                           !.logKey = main_key(kc.prefix, server, date_folder,
                                               kc.name)]
    /\ UNCHANGED <<mainVars, drv, sel>>

\* Midnight UTC passes while the run goes on.
KeyTick ==
    /\ kc.state \in {"ready", "uploaded"}
    /\ kc.ticks < MaxTicks
    /\ kc' = [kc EXCEPT !.day = @ + 1, !.ticks = @ + 1]
    /\ UNCHANGED <<mainVars, drv, sel>>

\* The network or the host name changes while the run goes on.
KeyRehost ==
    /\ kc.state \in {"ready", "uploaded"}
    /\ kc.rehosts < MaxRehosts
    /\ \/ \E ip \in IpOutcomes \ {kc.ip} :
             kc' = [kc EXCEPT !.ip = ip, !.rehosts = @ + 1]
       \/ \E h \in HostOutcomes \ {kc.hostn} :
             kc' = [kc EXCEPT !.hostn = h, !.rehosts = @ + 1]
    /\ UNCHANGED <<mainVars, drv, sel>>

KeyNext ==
    \/ KeyUpload
    \/ KeyLog
    \/ KeyTick
    \/ KeyRehost

SpecKey == KeyInit /\ [][KeyNext]_vars

\* ------------------------------------------------- database selection
\* The value of an environment variable: unset, or a string.
NoneStr == [isNone |-> TRUE, val |-> <<>>]

Str(v) == [isNone |-> FALSE, val |-> v]

Whitespace == {" "}

\* _env(name) with no default (mysql.py:22-26, postgres.py:18-22,
\* mongo.py:27-31): None when the variable is unset or blank, else its value
\* stripped.
env(v) ==
    IF v.isNone THEN NoneStr
    ELSE IF strip(v.val, Whitespace) = <<>> THEN NoneStr
    ELSE Str(strip(v.val, Whitespace))

\* a or b, for two optional strings
or_else(a, b) == IF ~a.isNone /\ a.val # <<>> THEN a ELSE b

\* str.split(sep)
RECURSIVE split_from(_, _, _, _)
split_from(str, sep, i, cur) ==
    IF i > Len(str) THEN <<cur>>
    ELSE IF str[i] = sep
    THEN <<cur>> \o split_from(str, sep, i + 1, <<>>)
    ELSE split_from(str, sep, i + 1, Append(cur, str[i]))

split(str, sep) == split_from(str, sep, 1, <<>>)

\* [d.strip() for d in items if d.strip()]
RECURSIVE stripped_nonempty(_)
stripped_nonempty(items) ==
    IF items = <<>> THEN <<>>
    ELSE LET d == strip(Head(items), Whitespace) IN
         IF d # <<>> THEN <<d>> \o stripped_nonempty(Tail(items))
         ELSE stripped_nonempty(Tail(items))

\* The common body of _databases_from_env, given what _env returned for the
\* list setting and the single setting: a non-empty list setting decides
\* alone, `dbs or None`.
databases_from(dblist, single) ==
    IF ~dblist.isNone
    THEN LET dbs == stripped_nonempty(split(dblist.val, ",")) IN
         IF dbs # <<>> THEN List(dbs) ELSE None
    ELSE IF ~single.isNone THEN List(<<single.val>>)
    ELSE None

\* mysql._databases_from_env (mysql.py:65-74)
mysql_databases_from_env(c) ==
    databases_from(env(c.list), env(c.single))

\* postgres._databases_from_env (postgres.py:50-57)
postgres_databases_from_env(c) ==
    databases_from(or_else(env(c.list), env(c.list2)),
                   or_else(or_else(env(c.single), env(c.single2)),
                           env(c.single3)))

\* mongo._databases_from_env (mongo.py:45-52)
mongo_databases_from_env(c) ==
    databases_from(env(c.list), env(c.single))

databases_from_env(e, c) ==
    CASE e = "mysql"    -> mysql_databases_from_env(c)
      [] e = "postgres" -> postgres_databases_from_env(c)
      [] e = "mongo"    -> mongo_databases_from_env(c)

\* backup(): `dbs = _databases_from_env(); if not dbs: dbs = _list_databases()`
\* (mysql.py:114-120, postgres.py:99-106, mongo.py:119-124); listed is what
\* the server would report.
select_targets(fromEnv, listed) ==
    IF fromEnv.isNone \/ fromEnv.items = <<>>
    THEN [dbs |-> listed, enumerated |-> TRUE]
    ELSE [dbs |-> fromEnv.items, enumerated |-> FALSE]

SelChars == {"a", "b", ",", " "}

SettingValues(n) == {NoneStr} \cup {Str(v) : v \in SeqUpTo(SelChars, n)}

\* Values of the settings that only stand in for another one.
AltValues == {NoneStr, Str(<<"b">>)}

\* What _list_databases() returns.
ListedValues == {<<>>, <<<<"b">>, <<"a", "b">>>>}

SelInit ==
    /\ MainInit
    /\ bucket = "set"
    /\ drv = NoDrv
    /\ kc = NoKc
    /\ \E e \in EngineSet :
       \E l \in SettingValues(MaxSettingLen), s1 \in SettingValues(MaxSingleLen),
          listed \in ListedValues :
       \E l2 \in IF e = "postgres" THEN AltValues ELSE {NoneStr},
          s2 \in IF e = "postgres" THEN AltValues ELSE {NoneStr},
          s3 \in IF e = "postgres" THEN AltValues ELSE {NoneStr} :
          sel = [state |-> "ready", engine |-> e,
                 cfg |-> [list |-> l, list2 |-> l2, single |-> s1,
                          single2 |-> s2, single3 |-> s3],
                 listed |-> listed, dbs |-> <<>>, enumerated |-> FALSE]

\* The database selection at the head of backup().
SelectDbs ==
    /\ sel.state = "ready"
    /\ LET t == select_targets(databases_from_env(sel.engine, sel.cfg),
                               sel.listed)
       IN sel' = [sel EXCEPT !.state = "done", !.dbs = t.dbs,
                             !.enumerated = t.enumerated]
    /\ UNCHANGED <<mainVars, drv, kc>>

SelNext == SelectDbs

SpecSelect == SelInit /\ [][SelNext]_vars

\* ----------------------------------------------------------------- claims
\* The paths of the items of created_files at the indices of the sequence idx.
PathsAt(idx) == [k \in 1..Len(idx) |-> created_files[idx[k]]]

\* The artifacts upload_files put successfully, in the order it put them.
PutPaths == PathsAt(putOk)

\* p is in the successful-upload result main() received.
InUploadResult(p) ==
    /\ ~uploaded_files.isNone
    /\ p \in Range(uploaded_files.items)

\* C1: main() unlinks an artifact only if it is in the result upload_files
\* returned; an artifact that is not in that result (skipped, never attempted,
\* or of a run whose upload raised) is never unlinked by main().
Inv_C1_DeleteOnlyUploaded ==
    \A p \in unlinked : InUploadResult(p)

\* A run went through the deletion step and an artifact it created, which is
\* not in the upload result, is still on disk.
Wit_C1 ==
    /\ pc = "done"
    /\ uploadStatus = "returned"
    /\ putOk # <<>>
    /\ \E p \in Range(created_files) :
          ~InUploadResult(p) /\ p \in disk /\ p \notin unlinked

\* C2 (as claimed): when upload_files completed without raising, main() ends
\* with exit status 0 and every artifact of the successful subset is deleted
\* unless its own deletion raised.
Cex_C2_UploadOkExitsZero ==
    (pc = "done" /\ uploadStatus = "returned") =>
        /\ exit = 0
        /\ \A p \in Range(PutPaths) : p \notin disk \/ p \in failed_deletions

\* C3 (as claimed): when no put failed, upload_files returns a list: the
\* artifacts that were on disk when reached and were put, in input order.
Cex_C3_ReturnsPutSubsequence ==
    uploadStatus = "returned" =>
        /\ ~uploaded_files.isNone
        /\ uploaded_files.items = PutPaths

\* C4: if the put of item k fails, upload_files raises to its caller, no put
\* is attempted for an item after k, and the items that have been put are
\* strictly before k.
Inv_C4_PutFailureAborts ==
    failedAt # 0 =>
        /\ uploadStatus = "raised"
        /\ \A j \in attempted : j <= failedAt
        /\ \A k \in 1..Len(putOk) : putOk[k] < failedAt

\* The put of an item failed after an earlier put succeeded and before the
\* last item was reached.
Wit_C4 ==
    /\ failedAt > 1
    /\ putOk # <<>>
    /\ failedAt < Len(created_files)
    /\ created_files[Len(created_files)] \in disk

\* C5: if upload_files raises, main() ends with exit status 3, writes no Run
\* Log and unlinks nothing: the artifact files on disk are those that were
\* there when the upload step began (less what someone else removed).
Inv_C5_UploadRaisePreserves ==
    uploadStatus = "raised" =>
        /\ pc = "done"
        /\ exit = 3
        /\ ~logWritten
        /\ unlinked = {}
        /\ disk = diskAtUpload \ extRemoved

\* upload_files raised after it had put an artifact; files are on disk.
Wit_C5 ==
    /\ uploadStatus = "raised"
    /\ putOk # <<>>
    /\ failedAt # 0
    /\ disk # {}

\* The driver phase of main() is over.
EnginesOver == pc \notin {"validate", "engines"}

\* C6: if the detect() or backup() of an engine raises, the other two engines
\* are still run and every artifact their backup() returned is in the list
\* handed to upload_files.
Inv_C6_EngineIsolation ==
    \A e \in EngineSet :
        (engStatus[e] = "raised" /\ EnginesOver) =>
            /\ \A o \in EngineSet \ {e} : engStatus[o] # "notrun"
            /\ created_files = ret["mysql"] \o ret["postgres"] \o ret["mongo"]

\* The first engine raised, the other two returned artifacts and the upload
\* step is reached.
Wit_C6 ==
    /\ pc = "upload"
    /\ engStatus["mysql"] = "raised"
    /\ ret["postgres"] # <<>>
    /\ ret["mongo"] # <<>>

\* The artifacts of the databases of a call whose dump succeeded, in order.
RECURSIVE Succeeded(_, _, _, _)
Succeeded(e, dbs, outs, i) ==
    IF i > Len(dbs) THEN <<>>
    ELSE IF outs[i] = "ok"
    THEN <<Path(e, dbs[i])>> \o Succeeded(e, dbs, outs, i + 1)
    ELSE Succeeded(e, dbs, outs, i + 1)

\* Every database of the call is dumped successfully or its dump fails.
OnlyDumpFailures(outs) ==
    \A i \in 1..Len(outs) : outs[i] \in {"ok", "dumpfail"}

\* C7 (as claimed): for every driver, when the dump of a database fails,
\* backup() does not raise and returns the artifacts of all the databases
\* whose dump succeeded, before and after the failing one.
Cex_C7_PerDatabaseIsolation ==
    (drv.state \in {"returned", "raised"} /\ OnlyDumpFailures(drv.outs)) =>
        /\ drv.state = "returned"
        /\ drv.result.created = Succeeded(drv.engine, drv.dbs, drv.outs, 1)

\* C8 (as claimed): the artifacts the Run Log lists are exactly the artifacts
\* upload_files put; one it skipped as missing is not listed.
Cex_C8_LogListsUploaded ==
    logWritten => Range(logEntries) = Range(PutPaths)

\* C9 (as claimed): a run ends with one of the statuses 0..3, each only for
\* its own outcome: 2 bucket missing, 1 empty artifact list, 3 upload raised,
\* 0 upload completed.
Cex_C9_ExitStatusOutcome ==
    pc = "done" =>
        /\ exit \in 0..3
        /\ exit = 2 => bucket # "set"
        /\ exit = 1 => created_files = <<>>
        /\ exit = 3 => uploadStatus = "raised"
        /\ exit = 0 => uploadStatus = "returned"

\* C10: when no bucket is configured, main() returns 2 before any driver is
\* invoked and performs no upload, no Run Log write and no deletion.
Inv_C10_NoBucketNoSideEffect ==
    bucket # "set" =>
        /\ pc \in {"validate", "done"}
        /\ pc = "done" => exit = 2
        /\ \A e \in EngineSet : engStatus[e] = "notrun"
        /\ driverWrote = {}
        /\ uploadStatus = "notcalled"
        /\ attempted = {}
        /\ ~logWritten
        /\ unlinked = {}

\* main() returned with an empty S3_BUCKET.
Wit_C10 ==
    /\ bucket = "empty"
    /\ pc = "done"
    /\ exit = 2


\* C11: when the accumulated artifact list is empty after the three engines,
\* main() returns 1 without calling upload_files and without writing a Run
\* Log.
Inv_C11_NothingToUpload ==
    (bucket = "set" /\ EnginesOver /\ created_files = <<>>) =>
        /\ pc = "done"
        /\ exit = 1
        /\ uploadStatus = "notcalled"
        /\ attempted = {}
        /\ ~logWritten

\* main() returned 1 after an engine was skipped, an engine raised leaving a
\* file behind and an engine returned nothing.
Wit_C11 ==
    /\ pc = "done"
    /\ exit = 1
    /\ created_files = <<>>
    /\ \E e \in EngineSet : engStatus[e] = "skipped"
    /\ \E e \in EngineSet : engStatus[e] = "raised"
    /\ \E e \in EngineSet : engStatus[e] = "returned"
    /\ disk # {}


\* Both keys of the artifact have been computed.
KeyLogged == kc.state = "logged"

\* C12: the key of upload_files and the key of the Run Log are the same
\* function: on the same file name, prefix, host identifier and date folder
\* both sites classify the engine alike and build the same key.
Inv_C12_SameKeyFunction ==
    (KeyLogged /\ kc.logServer = kc.upServer /\ kc.logDate = kc.upDate) =>
        /\ kc.logType = kc.upType
        /\ kc.logKey = kc.upKey

\* Both sites computed the key of an upper-case name of a known engine, under
\* a prefix with separators at both ends, with the same host and date.
Wit_C12 ==
    /\ KeyLogged
    /\ kc.logServer = kc.upServer
    /\ kc.logDate = kc.upDate
    /\ kc.name # lower(kc.name)
    /\ kc.upType = S_mysql
    /\ kc.prefix = <<"/", "p", "/">>

\* C13 (as claimed): the key the Run Log records for an artifact is the key
\* upload_files put it under, whatever time passes and however the resolved
\* host identity changes between the two steps.
Cex_C13_LogKeyIsUploadKey ==
    KeyLogged => kc.logKey = kc.upKey

\* C14 (as claimed): the host identifier in an artifact's file name is the
\* host segment of the key it is uploaded under.
Cex_C14_OneHostIdentity ==
    (kc.state \in {"uploaded", "logged"} /\ kc.engine # "other") =>
        kc.fileHost = kc.upServer


\* The tag of an engine, as the key sites spell it.
EngineTag(e) ==
    CASE e = "mysql"    -> S_mysql
      [] e = "postgres" -> S_postgres
      [] e = "mongo"    -> S_mongo

\* C17: for each engine and every host, database and timestamp, the
\* classification at the upload site and at the log site of the file name
\* that engine's driver produces is that engine's tag.
Inv_C17_NameRoundTrip ==
    kc.state \in {"uploaded", "logged"} /\ kc.engine # "other" =>
        /\ kc.upType = EngineTag(kc.engine)
        /\ KeyLogged => kc.logType = EngineTag(kc.engine)

\* Both sites classified a document-store artifact whose host name has an
\* upper-case letter and an underscore.
Wit_C17 ==
    /\ KeyLogged
    /\ kc.engine = "mongo"
    /\ kc.fileHost = <<"M", "y", "_", "H">>
    /\ kc.logType = S_mongo

\* The names the list setting of a selection yields, and its single setting.
SelList == or_else(env(sel.cfg.list), env(sel.cfg.list2))

SelSingle ==
    or_else(or_else(env(sel.cfg.single), env(sel.cfg.single2)),
            env(sel.cfg.single3))

SelListNames ==
    IF SelList.isNone THEN <<>>
    ELSE stripped_nonempty(split(SelList.val, ","))

\* C18 (as claimed): when the list setting yields at least one name exactly
\* those databases are targeted; otherwise, when the single setting is set,
\* exactly that database; the server is asked only when neither yields a name.
Cex_C18_SelectionPrecedence ==
    sel.state = "done" =>
        IF SelListNames # <<>>
        THEN sel.dbs = SelListNames /\ ~sel.enumerated
        ELSE IF ~SelSingle.isNone
        THEN sel.dbs = <<SelSingle.val>> /\ ~sel.enumerated
        ELSE sel.enumerated


\* No two items of the sequence are equal.
NoDup(l) == \A i, j \in 1..Len(l) : i # j => l[i] # l[j]

\* C15 (as claimed): every target database is dumped to one artifact of its
\* own: no two entries of the accumulated artifact list have the same path,
\* whatever the database names of the configuration.
Cex_C15_UniquePaths ==
    NoDup(created_files)

\* main() has gone through its Run Log step.
LogAttempted ==
    \/ pc = "delete"
    \/ pc = "done" /\ uploadStatus = "returned"

\* C16 (as claimed): the Run Log is written after the upload step and before
\* the first deletion, and when writing it fails the uploaded artifacts are
\* still deleted and the exit status is the one of a successful run.
Cex_C16_LogFailureNonFatal ==
    /\ LogAttempted => uploadStatus = "returned"
    /\ unlinked # {} => LogAttempted
    /\ (pc = "done" /\ LogAttempted /\ ~logWritten) =>
          /\ exit = 0
          /\ \A p \in Range(PutPaths) : p \notin disk \/ p \in failed_deletions

\* The artifacts of all the databases of a call, in order.
AllPaths(e, dbs) == [i \in 1..Len(dbs) |-> Path(e, dbs[i])]

\* Nothing goes wrong in the call but setting the permission of a file.
OnlyChmodFailures(outs) ==
    \A i \in 1..Len(outs) : outs[i] \in {"ok", "chmodfail"}

\* C19 (as claimed): for every driver, a failure to set the permission of a
\* created artifact is not fatal: backup() does not raise, the artifact is in
\* the returned list and the remaining databases are processed.
Cex_C19_ChmodNonFatal ==
    (drv.state \in {"returned", "raised"} /\ OnlyChmodFailures(drv.outs)) =>
        /\ drv.state = "returned"
        /\ drv.result.created = AllPaths(drv.engine, drv.dbs)

\* C20 (as claimed): in the document-store driver, a database whose archive
\* write failed is skipped, its path is not returned, and no file is left at
\* its artifact path when backup() returns.
Cex_C20_PartialArchiveDiscarded ==
    (drv.state = "returned" /\ drv.engine = "mongo" /\ NoDup(drv.dbs)) =>
        \A i \in 1..Len(drv.dbs) :
            drv.outs[i] \in {"archfail_nofile", "archfail_partial"} =>
                /\ Path("mongo", drv.dbs[i]) \notin Range(drv.result.created)
                /\ Path("mongo", drv.dbs[i]) \notin drv.result.written


\* The first database of a call whose processing is not "ok" (the relational
\* loop stops there), 0 if there is none.
FirstNotOk(outs) ==
    IF \A i \in 1..Len(outs) : outs[i] = "ok" THEN 0
    ELSE CHOOSE i \in 1..Len(outs) :
            /\ outs[i] # "ok"
            /\ \A j \in 1..(i - 1) : outs[j] = "ok"

\* C21: in the relational drivers, when the dump command exits non-zero the
\* output file is not touched and its path is not added to the created list:
\* the files written and the paths created are those of the databases before
\* the failing one.
Inv_C21_DumpCheckedBeforeOutput ==
    (drv.state \in {"returned", "raised"} /\ drv.engine # "mongo"
        /\ FirstNotOk(drv.outs) # 0
        /\ drv.outs[FirstNotOk(drv.outs)] = "dumpfail") =>
        LET k == FirstNotOk(drv.outs)
            before == SubSeq(drv.dbs, 1, k - 1)
        IN /\ drv.result.written = Range(AllPaths(drv.engine, before))
           /\ drv.result.created = AllPaths(drv.engine, before)

\* A relational backup() dumped one database and the dump of the next one,
\* a different database, exited non-zero.
Wit_C21 ==
    /\ drv.state = "raised"
    /\ drv.engine = "mysql"
    /\ Len(drv.dbs) = 2
    /\ drv.dbs[1] # drv.dbs[2]
    /\ drv.outs = <<"ok", "dumpfail">>
    /\ drv.result.written = {Path("mysql", drv.dbs[1])}

\* The key a site should build: the prefix without the separators at its
\* ends, if anything is left of it, then host, engine tag, date and name.
ExpectedKey(prefix, server, type, date, name) ==
    LET sp == strip(prefix, {"/"})
        rest == server \o <<"/">> \o type \o <<"/">> \o date \o <<"/">> \o name
    IN IF sp = <<>> THEN rest ELSE sp \o <<"/">> \o rest

\* C22 (as claimed): for every prefix, also one made of separators only, the
\* key is [prefix/]hostId/engineTag/dateFolder/filename with the prefix
\* stripped of the separators at its ends: it never starts with "/".
Cex_C22_PrefixNormalised ==
    /\ kc.state \in {"uploaded", "logged"} =>
          /\ kc.upKey = ExpectedKey(kc.prefix, kc.upServer, kc.upType,
                                    kc.upDate, kc.name)
          /\ kc.upKey[1] # "/"
    /\ KeyLogged =>
          /\ kc.logKey = ExpectedKey(kc.prefix, kc.logServer, kc.logType,
                                     kc.logDate, kc.name)
          /\ kc.logKey[1] # "/"

\* C23 (as claimed): after the three engines, every artifact file a driver
\* created on disk during the run is in the accumulated list handed to
\* upload_files, also those an engine created before a later database of the
\* same engine failed.
Cex_C23_NoOrphanArtifact ==
    (bucket = "set" /\ EnginesOver) =>
        driverWrote \subseteq Range(created_files)

====
